---- MODULE Spec2Model ----
(***************************************************************************)
(* Model of src/app.py: the Streamlit fair-value calculator.               *)
(*                                                                         *)
(* Python floats are modelled as exact real numbers: rationals             *)
(* [num, den] in lowest terms, and, for the one fractional power of the    *)
(* program (line 76), numbers of the form coef * rad^(1/deg) + off.        *)
(* Rounding and overflow of IEEE doubles are outside the model.            *)
(* A Python expression that can raise is modelled by a record              *)
(* [exc, val]: exc = "" when it returns val, else the exception's name.    *)
(***************************************************************************)
EXTENDS Integers, Sequences, FiniteSets, TLC

(***************************************************************************)
(* Exact rational arithmetic (Python's float operators + - * /).           *)
(***************************************************************************)
Abs(n) == IF n < 0 THEN -n ELSE n

RECURSIVE Gcd(_, _)
Gcd(a, b) == IF b = 0 THEN a ELSE Gcd(b, a % b)

Rat(n, d) ==
    LET g == Gcd(Abs(n), Abs(d))
        s == IF d < 0 THEN -1 ELSE 1
    IN  [num |-> (s * n) \div g, den |-> (s * d) \div g]

Zero == Rat(0, 1)
One == Rat(1, 1)
Hundred == Rat(100, 1)

\* over the least common denominator, so that intermediate values stay small
RAdd(p, q) ==
    LET g == Gcd(p.den, q.den)
    IN  Rat(p.num * (q.den \div g) + q.num * (p.den \div g), (p.den \div g) * q.den)
RNeg(q) == [num |-> -q.num, den |-> q.den]
RSub(p, q) == RAdd(p, RNeg(q))
\* cross-reduced so that intermediate products stay small
RMul(p, q) ==
    LET g1 == Gcd(Abs(p.num), q.den)
        g2 == Gcd(Abs(q.num), p.den)
    IN  Rat((p.num \div g1) * (q.num \div g2), (p.den \div g2) * (q.den \div g1))
RInv(q) == Rat(q.den, q.num)
RLt(p, q) == p.num * q.den < q.num * p.den
RLe(p, q) == p.num * q.den <= q.num * p.den
RGt(p, q) == RLt(q, p)
RIsZero(q) == q.num = 0

RECURSIVE RPowNat(_, _)
RPowNat(q, k) == IF k = 0 THEN One ELSE RMul(q, RPowNat(q, k - 1))

(***************************************************************************)
(* Exceptions.                                                             *)
(***************************************************************************)
Ok(v) == [exc |-> "", val |-> v]
Raise(e) == [exc |-> e, val |-> Zero]
Raised(r) == r.exc # ""

\* float / float
TrueDiv(p, q) == IF RIsZero(q) THEN Raise("ZeroDivisionError") ELSE Ok(RMul(p, RInv(q)))

(***************************************************************************)
(* Real numbers coef * rad^(1/deg) + off, rad >= 0 not a perfect deg-th    *)
(* power unless coef = 0 (then rad = 1, deg = 1: the number is rational).  *)
(***************************************************************************)
RealOfRat(q) == [coef |-> Zero, rad |-> One, deg |-> 1, off |-> q]
RealIsRat(r) == RIsZero(r.coef)
RealMulRat(r, q) ==
    IF RIsZero(q) THEN RealOfRat(Zero)
    ELSE [r EXCEPT !.coef = RMul(@, q), !.off = RMul(@, q)]
RealSubRat(r, q) == [r EXCEPT !.off = RSub(@, q)]
RealAddRat(r, q) == [r EXCEPT !.off = RAdd(@, q)]

\* min(r^k, cap + 1) for r >= 0, cap >= 0, never exceeding the integer range
RECURSIVE PowCapped(_, _, _)
PowCapped(r, k, cap) ==
    IF k = 0 THEN 1
    ELSE IF r = 0 THEN 0
    ELSE LET p == PowCapped(r, k - 1, cap)
         IN  IF p > cap THEN cap + 1
             ELSE IF p > cap \div r THEN cap + 1
             ELSE p * r

\* the largest r in lo..hi with r^k <= n (lo^k <= n is given)
RECURSIVE IRootSearch(_, _, _, _)
IRootSearch(lo, hi, n, k) ==
    IF lo >= hi THEN lo
    ELSE LET mid == (lo + hi + 1) \div 2
         IN  IF PowCapped(mid, k, n) <= n
             THEN IRootSearch(mid, hi, n, k)
             ELSE IRootSearch(lo, mid - 1, n, k)

IRoot(n, k) == IRootSearch(0, n, n, k)
IsPerfectPower(n, k) == PowCapped(IRoot(n, k), k, n) = n
\* q >= 0 has a rational k-th root
HasRatRoot(q, k) == IsPerfectPower(q.num, k) /\ IsPerfectPower(q.den, k)
RatRoot(q, k) == Rat(IRoot(q.num, k), IRoot(q.den, k))

\* q^(1/k) for q >= 0, k >= 1, in normal form
NthRoot(q, k) ==
    LET ds == {d \in 1..k : k % d = 0 /\ HasRatRoot(q, d)}
        d == CHOOSE m \in ds : \A e \in ds : e <= m
    IN  IF d = k THEN RealOfRat(RatRoot(q, k))
        ELSE [coef |-> One, rad |-> RatRoot(q, d), deg |-> k \div d, off |-> Zero]

\* r^k for a real r with off = 0 and deg dividing k, or a rational r
RealPowNat(r, k) ==
    IF RealIsRat(r) THEN RPowNat(r.off, k)
    ELSE RMul(RPowNat(r.coef, k), RPowNat(r.rad, k \div r.deg))
RealPowNatDefined(r, k) == RealIsRat(r) \/ (RIsZero(r.off) /\ k % r.deg = 0)

(***************************************************************************)
(* math.pow(x, y), src/app.py line 5, for rational x and rational y.       *)
(***************************************************************************)
math_pow(x, y) ==
    IF RIsZero(x) /\ y.num < 0 THEN Raise("ValueError")
    ELSE IF x.num < 0 /\ y.den # 1 THEN Raise("ValueError")
    ELSE LET b == IF y.num < 0 THEN RInv(x) ELSE x
             p == RPowNat(b, Abs(y.num))
         IN  Ok(IF y.den = 1 THEN RealOfRat(p) ELSE NthRoot(p, y.den))

(***************************************************************************)
(* calculate_projection, src/app.py lines 58-108.                          *)
(***************************************************************************)
\* faulty variant of line 65: compounds one year too many
future_metric_OneYearMore(start_value, growth_rate, years) ==
    LET p == math_pow(RAdd(One, growth_rate), Rat(years + 1, 1))
    IN  IF Raised(p) THEN p ELSE Ok(RMul(start_value, p.val.off))

\* faulty variant of line 65: pow(1 - growth_rate, years)
future_metric_SignSlip(start_value, growth_rate, years) ==
    LET p == math_pow(RSub(One, growth_rate), Rat(years, 1))
    IN  IF Raised(p) THEN p ELSE Ok(RMul(start_value, p.val.off))

\* line 65: future_metric = start_value * pow(1 + growth_rate, years)
future_metric(start_value, growth_rate, years) ==
    LET p == math_pow(RAdd(One, growth_rate), Rat(years, 1))
    IN  IF Raised(p) THEN p ELSE Ok(RMul(start_value, p.val.off))

\* line 68: future_stock_price = future_metric * multiple
future_stock_price(fm, multiple) == RMul(fm, multiple)

\* faulty variant of line 71: multiplies by the discount factor
just_value_Multiplied(fsp, desired_return, years) ==
    LET p == math_pow(RAdd(One, desired_return), Rat(years, 1))
    IN  IF Raised(p) THEN p ELSE Ok(RMul(fsp, p.val.off))

\* line 71: just_value = future_stock_price / pow(1 + desired_return, years)
just_value(fsp, desired_return, years) ==
    LET p == math_pow(RAdd(One, desired_return), Rat(years, 1))
    IN  IF Raised(p) THEN p ELSE TrueDiv(fsp, p.val.off)

\* faulty variant of line 76: the exponent years instead of 1/years
InverseYears_NotInverted(years) == Ok(Rat(years, 1))

\* 1/years of line 76, on a Python int
InverseYears(years) ==
    IF years = 0 THEN Raise("ZeroDivisionError") ELSE Ok(Rat(1, years))

\* variant of lines 74-76 that also guards years: "if current_price > 0 and years > 0"
current_annual_return_GuardedYears(fsp, current_price, years) ==
    IF RGt(current_price, Zero) /\ years > 0
    THEN LET p == math_pow(RMul(fsp, RInv(current_price)), Rat(1, years))
         IN  IF Raised(p) THEN p
             ELSE Ok(RealMulRat(RealSubRat(p.val, One), Hundred))
    ELSE Ok(RealOfRat(Zero))

\* lines 74-76: 0.0 unless current_price > 0, else
\* (pow(future_stock_price / current_price, 1/years) - 1) * 100
current_annual_return(fsp, current_price, years) ==
    IF RGt(current_price, Zero)
    THEN LET ratio == TrueDiv(fsp, current_price)
             e == InverseYears(years)
         IN  IF Raised(ratio) THEN ratio
             ELSE IF Raised(e) THEN e
             ELSE LET p == math_pow(ratio.val, e.val)
                  IN  IF Raised(p) THEN p
                      ELSE Ok(RealMulRat(RealSubRat(p.val, One), Hundred))
    ELSE Ok(RealOfRat(Zero))

\* variant of lines 81-93 without the year-0 branch: price_i = metric_i * multiple
\* at every year
ProjectionRow_UniformPrice(start_value, growth_rate, multiple, current_price, year) ==
    LET metric_i == RMul(start_value,
                         math_pow(RAdd(One, growth_rate), Rat(year, 1)).val.off)
    IN  [Annee |-> year, Prix |-> RMul(metric_i, multiple), Metric |-> metric_i,
         Type |-> "Prix Projete"]

\* lines 81-93: one row of projection_data.  pow(1 + growth_rate, year) cannot
\* raise here: year >= 1.
ProjectionRow(start_value, growth_rate, multiple, current_price, year) ==
    LET metric_i == IF year = 0 THEN start_value
                    ELSE RMul(start_value,
                              math_pow(RAdd(One, growth_rate), Rat(year, 1)).val.off)
        price_i == IF year = 0
                   THEN (IF RGt(current_price, Zero) THEN current_price ELSE Zero)
                   ELSE RMul(metric_i, multiple)
    IN  [Annee |-> year, Prix |-> price_i, Metric |-> metric_i, Type |-> "Prix Projete"]

\* faulty variant of line 80: range(years)
projection_data_RangeYears(start_value, growth_rate, multiple, years, current_price) ==
    [i \in 1..years |->
        ProjectionRow(start_value, growth_rate, multiple, current_price, i - 1)]

\* lines 79-93: for year in range(years + 1)
projection_data(start_value, growth_rate, multiple, years, current_price) ==
    [i \in 1..(years + 1) |->
        ProjectionRow(start_value, growth_rate, multiple, current_price, i - 1)]

\* lines 98-101: the two marker rows
df_cible(years, current_price, fsp) ==
    << [Annee |-> 0, Prix |-> current_price, Metric |-> Zero, Type |-> "Prix Actuel"],
       [Annee |-> years, Prix |-> fsp, Metric |-> Zero, Type |-> "Prix Cible"] >>

Range(s) == {s[i] : i \in DOMAIN s}

\* every ordering of the rows S by ascending Annee
RECURSIVE SortedOrders(_)
SortedOrders(S) ==
    IF S = {} THEN {<<>>}
    ELSE LET lo == CHOOSE y \in {r.Annee : r \in S} : \A r \in S : y <= r.Annee
         IN  UNION {{<<r>> \o t : t \in SortedOrders(S \ {r})} :
                    r \in {x \in S : x.Annee = lo}}

\* line 102: sort_values("Annee") sorts with quicksort, which is not stable:
\* rows of the same year may come out in any order.
sort_values(rows) == SortedOrders(Range(rows))

Columns(metric_label) == <<"Annee", "Prix Projete", metric_label, "Type">>
\* pd.DataFrame()
EmptyDataFrame == [columns |-> <<>>, rows |-> <<>>]
\* line 108: return 0.0, 0.0, pd.DataFrame()
Sentinel ==
    [just_value |-> Zero, current_annual_return |-> RealOfRat(Zero), df |-> EmptyDataFrame]

\* lines 58-108: the set of values the call can return
calculate_projection(start_value, growth_rate, multiple, years, desired_return, current_price, metric_label) ==
    LET fm == future_metric(start_value, growth_rate, years)
    IN  IF Raised(fm) THEN {Sentinel}
        ELSE
        LET fsp == future_stock_price(fm.val, multiple)
            jv == just_value(fsp, desired_return, years)
        IN  IF Raised(jv) THEN {Sentinel}
            ELSE
            LET car == current_annual_return(fsp, current_price, years)
            IN  IF Raised(car) THEN {Sentinel}
                ELSE
                LET rows == projection_data(start_value, growth_rate, multiple,
                                            years, current_price)
                            \o df_cible(years, current_price, fsp)
                IN  {[just_value |-> jv.val, current_annual_return |-> car.val,
                      df |-> [columns |-> Columns(metric_label), rows |-> sorted]] :
                     sorted \in sort_values(rows)}

(***************************************************************************)
(* fetch_stock_price, src/app.py lines 27-53.                              *)
(*                                                                         *)
(* A provider response is [kind, data]: requests.get raising               *)
(* ("ConnectionError", "Timeout"), an HTTP error status ("HTTPError"), a   *)
(* body that is not JSON ("NotJSON"), or a JSON body ("JSON") described by *)
(* data.  Strings that the code parses are sequences of characters.        *)
(***************************************************************************)
DigitValue(c) ==
    CASE c = "0" -> 0 [] c = "1" -> 1 [] c = "2" -> 2 [] c = "3" -> 3 [] c = "4" -> 4
      [] c = "5" -> 5 [] c = "6" -> 6 [] c = "7" -> 7 [] c = "8" -> 8 [] c = "9" -> 9
      [] OTHER -> -1

AllDigits(cs) == \A i \in DOMAIN cs : DigitValue(cs[i]) >= 0

RECURSIVE DigitsValue(_)
DigitsValue(cs) ==
    IF cs = <<>> THEN 0
    ELSE 10 * DigitsValue(SubSeq(cs, 1, Len(cs) - 1)) + DigitValue(cs[Len(cs)])

RECURSIVE PowerOfTen(_)
PowerOfTen(k) == IF k = 0 THEN 1 ELSE 10 * PowerOfTen(k - 1)

\* float(s), line 43, for decimal literals [sign] digits [. digits]; any other
\* text raises ValueError
ParseFloat(cs) ==
    LET signed == cs # <<>> /\ cs[1] \in {"+", "-"}
        body == IF signed THEN Tail(cs) ELSE cs
        dots == {i \in DOMAIN body : body[i] = "."}
        dot == IF dots = {} THEN Len(body) + 1
               ELSE CHOOSE i \in dots : \A k \in dots : i <= k
        int == SubSeq(body, 1, dot - 1)
        frac == SubSeq(body, dot + 1, Len(body))
        q == Rat(DigitsValue(int) * PowerOfTen(Len(frac)) + DigitsValue(frac),
                 PowerOfTen(Len(frac)))
    IN  IF AllDigits(int) /\ AllDigits(frac) /\ Len(int) + Len(frac) >= 1
        THEN Ok(IF signed /\ cs[1] = "-" THEN RNeg(q) ELSE q)
        ELSE Raise("ValueError")

\* what fetch_stock_price returns (price, name), the message it passes to
\* st.error, or the exception that leaves it
Return(price, name, error) == [exc |-> "", price |-> price, name |-> name, error |-> error]
Escapes(e) == [exc |-> e, price |-> Zero, name |-> "", error |-> ""]

\* lines 42-49: the branches on the decoded body
QuoteBranches(symbol, data) ==
    IF data.type # "dict" THEN Escapes("AttributeError")
    ELSE IF /\ data.global_quote.present /\ data.global_quote.has_price
            /\ data.global_quote.price # <<>>
    THEN LET price == ParseFloat(data.global_quote.price)
         IN  IF Raised(price) THEN Escapes(price.exc)
             ELSE Return(price.val, symbol, "")
    ELSE IF data.error_message # "" THEN Return(Zero, symbol, "Erreur API")
    ELSE Return(Zero, symbol, "")

\* lines 28-53.  requests.get, raise_for_status and response.json raise
\* subclasses of RequestException (requests >= 2.27 for response.json), which
\* line 51 catches; nothing else is caught.
fetch_stock_price(symbol, resp) ==
    IF symbol = "" THEN Return(Zero, "--", "")
    ELSE IF resp.kind \in {"ConnectionError", "Timeout", "HTTPError", "NotJSON"}
    THEN Return(Zero, "--", "Erreur de connexion")
    ELSE QuoteBranches(symbol, resp.data)

(***************************************************************************)
(* State.  args, returned, result, prev: calls of calculate_projection on  *)
(* inputs drawn from bounded sets.  session_state, widgets, cache,         *)
(* response, fetched, eps_view, fcf_view: the Streamlit app.               *)
(***************************************************************************)
VARIABLES args, returned, result, prev,
          session_state, widgets, cache, response, fetched, eps_view, fcf_view

vars == <<args, returned, result, prev,
          session_state, widgets, cache, response, fetched, eps_view, fcf_view>>
callVars == <<args, returned, result, prev>>
appVars == <<session_state, widgets, cache, response, fetched, eps_view, fcf_view>>

(***************************************************************************)
(* Calls of calculate_projection: the arguments of the latest call, its    *)
(* result, and the arguments and scalar results of the call before it.     *)
(* The function is called again with one argument changed, as the app does *)
(* when one input changes.                                                 *)
(***************************************************************************)
MaxYears == 2

StartValues == {Rat(-1, 1), Zero, One, Rat(2, 1)}
GrowthRates == {Rat(-1, 1), Rat(-1, 2), Zero, One}
Multiples == {One, Rat(2, 1)}
Years == 0..MaxYears
DesiredReturns == {Rat(-1, 1), Zero, Rat(1, 2)}
CurrentPrices == {Zero, One, Rat(2, 1)}
MetricLabel == "EPS Projete"

Args ==
    [start_value : StartValues, growth_rate : GrowthRates, multiple : Multiples,
     years : Years, desired_return : DesiredReturns, current_price : CurrentPrices]

NoCall == [called |-> FALSE]

Call(a) ==
    calculate_projection(a.start_value, a.growth_rate, a.multiple, a.years,
                         a.desired_return, a.current_price, MetricLabel)

Summary(a, r) ==
    [called |-> TRUE, args |-> a, just_value |-> r.just_value,
     current_annual_return |-> r.current_annual_return,
     empty |-> r.df.rows = <<>>]

(***************************************************************************)
(* The app, src/app.py lines 113-275: one script run per interaction.      *)
(***************************************************************************)
\* lines 164, 227: years = 5
AppYears == 5

\* the values the widgets take in the model, within the widgets' ranges; rates
\* in percent, chosen so that the fifth powers stay within 32-bit integers
WidgetValues ==
    [symbol |-> {"AAPL", ""},
     eps |-> {Rat(15, 2)},
     eps_growth |-> {Rat(25, 1)},
     pe_multiple |-> {Rat(20, 1)},
     desired_return_eps |-> {Rat(20, 1)},
     fcfps |-> {Rat(4, 1)},
     fcf_growth |-> {Rat(20, 1), Rat(25, 1)},
     pfcf_multiple |-> {Rat(25, 1)},
     desired_return_fcf |-> {Rat(20, 1), Rat(25, 1)}]
Widgets ==
    [symbol : WidgetValues.symbol,
     eps : WidgetValues.eps, eps_growth : WidgetValues.eps_growth,
     pe_multiple : WidgetValues.pe_multiple,
     desired_return_eps : WidgetValues.desired_return_eps,
     fcfps : WidgetValues.fcfps, fcf_growth : WidgetValues.fcf_growth,
     pfcf_multiple : WidgetValues.pfcf_multiple,
     desired_return_fcf : WidgetValues.desired_return_fcf]
ManualPrices == {Zero, Rat(100, 1)}

NoData ==
    [type |-> "none",
     global_quote |-> [present |-> FALSE, has_price |-> FALSE, price |-> <<>>],
     error_message |-> "", note |-> ""]
Dict(gq, em, note) ==
    [type |-> "dict", global_quote |-> gq, error_message |-> em, note |-> note]
NoQuote == [present |-> FALSE, has_price |-> FALSE, price |-> <<>>]
EmptyQuote == [present |-> TRUE, has_price |-> FALSE, price |-> <<>>]
Quote(price) == [present |-> TRUE, has_price |-> TRUE, price |-> price]

JsonBodies ==
    { Dict(Quote(<<"1", "5", "0", ".", "0", "0">>), "", ""),
      Dict(Quote(<<"0", ".", "0", "0", "0", "0">>), "", ""),
      Dict(Quote(<<"N", "/", "A">>), "", ""),
      Dict(Quote(<<>>), "", ""),
      Dict(EmptyQuote, "", ""),
      Dict(NoQuote, "Invalid API call", ""),
      Dict(NoQuote, "", "rate limit"),
      [NoData EXCEPT !.type = "list"] }
Responses ==
    {[kind |-> k, data |-> NoData] : k \in {"ConnectionError", "Timeout", "HTTPError", "NotJSON"}}
    \cup {[kind |-> "JSON", data |-> d] : d \in JsonBodies}
NoResponse == [kind |-> "none", data |-> NoData]

NotCached == [cached |-> FALSE, price |-> Zero, name |-> "", error |-> ""]
Cached(r) == [cached |-> TRUE, price |-> r.price, name |-> r.name, error |-> r.error]
NoSearch == [searched |-> FALSE, exc |-> "", price |-> Zero, name |-> "", error |-> ""]
Searched(r) ==
    [searched |-> TRUE, exc |-> r.exc, price |-> r.price, name |-> r.name, error |-> r.error]

\* lines 197-204, 260-267: px.line(df, x="Annee", y="Prix Projete", color="Type"),
\* one trace per Type with the points of that Type in the order of df
Trace(df, type) ==
    LET rows == SelectSeq(df.rows, LAMBDA row : row.Type = type)
    IN  [i \in DOMAIN rows |-> <<rows[i].Annee, rows[i].Prix>>]
Chart(df) == [type \in {"Prix Projete", "Prix Actuel", "Prix Cible"} |-> Trace(df, type)]

\* lines 182-212, 245-275: the metrics and, unless df is empty, the chart
View(r) ==
    [rendered |-> TRUE, just_value |-> r.just_value,
     current_return |-> r.current_annual_return,
     charted |-> r.df.rows # <<>>, chart |-> Chart(r.df)]
NotRendered ==
    [rendered |-> FALSE, just_value |-> Zero, current_return |-> RealOfRat(Zero),
     charted |-> FALSE, chart |-> Chart(EmptyDataFrame)]

Percent(x) == RMul(x, Rat(1, 100))

\* lines 167-175
tab_eps(w, current_price) ==
    {View(r) : r \in calculate_projection(w.eps, Percent(w.eps_growth), w.pe_multiple,
                                          AppYears, Percent(w.desired_return_eps),
                                          current_price, "EPS Projete")}
\* lines 230-238
tab_fcf(w, current_price) ==
    {View(r) : r \in calculate_projection(w.fcfps, Percent(w.fcf_growth), w.pfcf_multiple,
                                          AppYears, Percent(w.desired_return_fcf),
                                          current_price, "FCFPS Projete")}

\* lines 138-275: the rest of a script run, from the manual price on.  The
\* number input holds manual_price (what the user typed, or the value it is
\* re-created with after a search) and st.session_state.current_price takes it.
RunFromManualPrice(w, manual_price, stock_name) ==
    /\ session_state' = [current_price |-> manual_price, stock_name |-> stock_name]
    /\ eps_view' \in tab_eps(w, manual_price)
    /\ fcf_view' \in tab_fcf(w, manual_price)

\* the first script run: lines 20-23 set the session state, no button is pressed
AppInit ==
    /\ widgets \in Widgets
    /\ session_state = [current_price |-> Zero, stock_name |-> "--"]
    /\ cache = [s \in WidgetValues.symbol |-> NotCached]
    /\ response = NoResponse
    /\ fetched = NoSearch
    /\ eps_view \in tab_eps(widgets, Zero)
    /\ fcf_view \in tab_fcf(widgets, Zero)
    /\ args = CHOOSE a \in Args : TRUE
    /\ returned = FALSE
    /\ result = Sentinel
    /\ prev = NoCall

\* lines 127-131, then the rest of the run: "Rechercher le prix" is pressed.
\* st.cache_data (line 27) answers from the cache when the symbol is cached and
\* calls the function and caches what it returns otherwise; an exception that
\* leaves fetch_stock_price is not caught at line 129 and ends the script run.
SearchPrice ==
    LET hit == cache[widgets.symbol].cached
        requested == ~hit /\ widgets.symbol # ""
    IN  \E resp \in IF requested THEN Responses ELSE {NoResponse} :
            LET r == IF hit THEN Return(cache[widgets.symbol].price,
                                        cache[widgets.symbol].name,
                                        cache[widgets.symbol].error)
                     ELSE fetch_stock_price(widgets.symbol, resp)
            IN  /\ response' = resp
                /\ fetched' = Searched(r)
                /\ IF r.exc # ""
                   THEN /\ eps_view' = NotRendered
                        /\ fcf_view' = NotRendered
                        /\ UNCHANGED <<session_state, cache>>
                   ELSE /\ cache' = [cache EXCEPT ![widgets.symbol] = Cached(r)]
                        /\ RunFromManualPrice(widgets, r.price, r.name)
                /\ UNCHANGED <<widgets, callVars>>

\* the user types a price into the number input (line 138)
EnterManualPrice ==
    \E p \in ManualPrices :
        /\ p # session_state.current_price
        /\ RunFromManualPrice(widgets, p, session_state.stock_name)
        /\ response' = NoResponse
        /\ fetched' = NoSearch
        /\ UNCHANGED <<widgets, cache, callVars>>

\* the user changes the symbol, a number input or a slider
ChangeWidget ==
    \E f \in DOMAIN WidgetValues : \E v \in WidgetValues[f] :
        /\ v # widgets[f]
        /\ widgets' = [widgets EXCEPT ![f] = v]
        /\ RunFromManualPrice(widgets', session_state.current_price, session_state.stock_name)
        /\ response' = NoResponse
        /\ fetched' = NoSearch
        /\ UNCHANGED <<cache, callVars>>

\* line 27: ttl=3600, a cached entry expires
CacheExpires ==
    \E s \in WidgetValues.symbol :
        /\ cache[s].cached
        /\ cache' = [cache EXCEPT ![s] = NotCached]
        /\ UNCHANGED <<session_state, widgets, response, fetched, eps_view, fcf_view, callVars>>

AppNext ==
    \/ SearchPrice
    \/ EnterManualPrice
    \/ ChangeWidget
    \/ CacheExpires

AppSpec == AppInit /\ [][AppNext]_vars

(***************************************************************************)
(* The specification of the calls of calculate_projection.                 *)
(***************************************************************************)
Init ==
    /\ args \in Args
    /\ returned = FALSE
    /\ result = Sentinel
    /\ prev = NoCall
    /\ widgets = CHOOSE w \in Widgets : TRUE
    /\ session_state = [current_price |-> Zero, stock_name |-> "--"]
    /\ cache = [s \in WidgetValues.symbol |-> NotCached]
    /\ response = NoResponse
    /\ fetched = NoSearch
    /\ eps_view = NotRendered
    /\ fcf_view = NotRendered

\* the first call
Calculate ==
    /\ ~returned
    /\ returned' = TRUE
    /\ result' \in Call(args)
    /\ UNCHANGED <<args, prev, appVars>>

\* a further call, on the arguments a
Recalculate(a) ==
    /\ returned
    /\ a # args
    /\ args' = a
    /\ result' \in Call(a)
    /\ prev' = Summary(args, result)
    /\ UNCHANGED <<returned, appVars>>

ChangeGrowthRate == \E v \in GrowthRates : Recalculate([args EXCEPT !.growth_rate = v])
ChangeCurrentPrice == \E v \in CurrentPrices : Recalculate([args EXCEPT !.current_price = v])

Next ==
    \/ Calculate
    \/ ChangeGrowthRate
    \/ ChangeCurrentPrice

Spec == Init /\ [][Next]_vars

(***************************************************************************)
(* The claims about calculate_projection, checked under Spec.              *)
(***************************************************************************)
MinusOne == Rat(-1, 1)
IsSentinel(r) == r = Sentinel
ProjectedRows(r) == SelectSeq(r.df.rows, LAMBDA row : row.Type = "Prix Projete")
\* base_metric * (1 + growth_rate)^y, as the claims write it
ClaimMetric(a, y) == RMul(a.start_value, RPowNat(RAdd(One, a.growth_rate), y))
\* future_price = base_metric * (1 + growth_rate)^years * exit_multiple
ClaimFuturePrice(a) == RMul(ClaimMetric(a, a.years), a.multiple)
ClaimDiscount(a) == RPowNat(RAdd(One, a.desired_return), a.years)

C1_Domain ==
    /\ RGt(args.start_value, Zero) /\ RGt(args.growth_rate, MinusOne)
    /\ RGt(args.multiple, Zero) /\ RGt(args.desired_return, MinusOne)
    /\ args.years >= 1

\* C1: for base_metric > 0, growth_rate > -1, exit_multiple > 0,
\* desired_return > -1 and years >= 1 (any current_price >= 0) the calculator
\* returns a computed result whose fair_value satisfies
\* fair_value * (1 + desired_return)^years = future_price.
C1_FairValue ==
    (returned /\ C1_Domain) =>
        /\ ~IsSentinel(result)
        /\ RMul(result.just_value, ClaimDiscount(args)) = ClaimFuturePrice(args)

\* C1 witness: a call in the domain with growth, discounting and a known price
C1_Witness ==
    /\ returned /\ C1_Domain
    /\ args.years = 2 /\ args.growth_rate = One /\ args.desired_return = Rat(1, 2)
    /\ args.start_value = Rat(2, 1) /\ args.multiple = Rat(2, 1)
    /\ RGt(args.current_price, Zero)
    /\ result.just_value = Rat(64, 9)

\* The inputs on which an arithmetic step of the calculation fails:
\* division by (1 + desired_return)^years = 0; 1/years with years = 0 when the
\* return is computed (current_price > 0); a negative price ratio raised to a
\* fractional power (years >= 2).
ArithmeticFails(a) ==
    \/ RIsZero(ClaimDiscount(a))
    \/ (RGt(a.current_price, Zero) /\ a.years = 0)
    \/ (RGt(a.current_price, Zero) /\ a.years >= 2 /\ RLt(ClaimFuturePrice(a), Zero))

\* C2: when an arithmetic step fails the call returns exactly the failure
\* sentinel (0, 0, empty series); in every other case it returns a non-empty
\* series; an empty series never comes with anything but the sentinel values.
C2_SentinelOrSeries ==
    returned =>
    /\ ArithmeticFails(args) => IsSentinel(result)
    /\ ~ArithmeticFails(args) => result.df.rows # <<>>
    /\ result.df.rows = <<>> => IsSentinel(result)

\* C2 witness: years = 0 with current_price > 0 returned the sentinel
C2_Witness ==
    /\ returned
    /\ args.years = 0 /\ RGt(args.current_price, Zero)
    /\ RGt(args.start_value, Zero)
    /\ IsSentinel(result)

\* C3 as claimed: with years = 0 the fair value is base_metric * exit_multiple
\* for every desired_return and every current_price.
C3_Original ==
    (returned /\ args.years = 0) => result.just_value = RMul(args.start_value, args.multiple)

\* C3 as amended: with years = 0 and current_price <= 0 the fair value is
\* base_metric * exit_multiple for every desired_return; with years = 0 and
\* current_price > 0 the call returns the failure sentinel.
C3_Amended ==
    (returned /\ args.years = 0) =>
        IF RLe(args.current_price, Zero)
        THEN /\ ~IsSentinel(result)
             /\ result.just_value = RMul(args.start_value, args.multiple)
        ELSE IsSentinel(result)

\* C3 witness: years = 0, no price, desired_return = -1, fair value 2 * 2
C3_Witness ==
    /\ returned
    /\ args.years = 0 /\ RIsZero(args.current_price)
    /\ args.desired_return = MinusOne
    /\ result.just_value = Rat(4, 1)

\* 1 + r/100 for a returned implied_return_pct r
GrowthFactor(r) == RealAddRat(RealMulRat(r, Rat(1, 100)), One)

\* (1 + r/100)^years * current_price = future_price
IsAnnualizedReturn(r, a) ==
    /\ RealPowNatDefined(GrowthFactor(r), a.years)
    /\ RMul(RealPowNat(GrowthFactor(r), a.years), a.current_price) = ClaimFuturePrice(a)

C4_Body ==
    IF RGt(args.current_price, Zero)
    THEN IsAnnualizedReturn(result.current_annual_return, args)
    ELSE /\ result.current_annual_return = RealOfRat(Zero)
         /\ ~IsSentinel(result)
         /\ RMul(result.just_value, ClaimDiscount(args)) = ClaimFuturePrice(args)

\* C4 as claimed: for years >= 1 and future_price >= 0, with current_price > 0
\* the returned r satisfies (1 + r/100)^years * current_price = future_price,
\* and with current_price <= 0 it is exactly 0 while fair_value and the
\* series are computed normally.
C4_Original ==
    (returned /\ args.years >= 1 /\ RLe(Zero, ClaimFuturePrice(args))) => C4_Body

\* C4 as amended: the same, for desired_return # -1.
C4_Amended ==
    (/\ returned /\ args.years >= 1 /\ RLe(Zero, ClaimFuturePrice(args))
     /\ args.desired_return # MinusOne) => C4_Body

\* C4 witness: an irrational return, future_price / current_price = 2 over two years
C4_Witness ==
    /\ returned
    /\ args.years = 2 /\ args.current_price = One
    /\ ClaimFuturePrice(args) = Rat(2, 1)
    /\ args.desired_return # MinusOne
    /\ ~RealIsRat(result.current_annual_return)
    /\ IsAnnualizedReturn(result.current_annual_return, args)

\* the latest call and the call before it differ in current_price only:
\* the earlier one has current_price = 0, the latest current_price = future_price > 0
C5_Pair ==
    /\ prev.called
    /\ prev.args = [args EXCEPT !.current_price = Zero]
    /\ RGt(args.current_price, Zero)
    /\ args.current_price = ClaimFuturePrice(args)
    /\ ~prev.empty /\ ~IsSentinel(result)

\* C5: the implied return returned for current_price = 0 (undefined) differs
\* from the one returned for a genuine 0% return (current_price = future_price > 0).
\* The call returns (just_value, current_annual_return, df) and no validity flag.
C5_Distinguishable ==
    C5_Pair => prev.current_annual_return # result.current_annual_return

\* C8 as claimed: in a computed series every projected point, year 0 included,
\* has price_value = metric_value * exit_multiple.
C8_Original ==
    (returned /\ ~IsSentinel(result)) =>
        \A i \in DOMAIN ProjectedRows(result) :
            LET row == ProjectedRows(result)[i]
            IN  row.Prix = RMul(row.Metric, args.multiple)

\* C8 as amended: every projected point of a year y >= 1 has
\* price_value = metric_value * exit_multiple; the point of year 0 has
\* price_value = current_price when current_price > 0, and 0 otherwise.
C8_Amended ==
    (returned /\ ~IsSentinel(result)) =>
        \A i \in DOMAIN ProjectedRows(result) :
            LET row == ProjectedRows(result)[i]
            IN  IF row.Annee >= 1
                THEN row.Prix = RMul(row.Metric, args.multiple)
                ELSE row.Prix = (IF RGt(args.current_price, Zero)
                                 THEN args.current_price ELSE Zero)

\* C8 witness: a series whose year-0 price is current_price and year-2 price 4 * 2
C8_Witness ==
    /\ returned /\ ~IsSentinel(result)
    /\ args.years = 2 /\ args.current_price = One
    /\ args.start_value = One /\ args.multiple = Rat(2, 1) /\ args.growth_rate = One
    /\ \E i \in DOMAIN ProjectedRows(result) :
          /\ ProjectedRows(result)[i].Annee = 2
          /\ ProjectedRows(result)[i].Prix = Rat(8, 1)
    /\ \E i \in DOMAIN ProjectedRows(result) :
          /\ ProjectedRows(result)[i].Annee = 0
          /\ ProjectedRows(result)[i].Prix = One

C9_Domain ==
    /\ returned
    /\ RGt(args.start_value, Zero) /\ RGt(args.growth_rate, MinusOne)
    /\ args.years >= 0 /\ RLe(Zero, args.current_price)

\* exactly one projected point per year 0..years, the whole series in
\* non-decreasing year order, metric_value(y) = base_metric * (1 + growth_rate)^y
C9_Body ==
    LET rows == result.df.rows
        proj == ProjectedRows(result)
    IN  /\ Len(proj) = args.years + 1
        /\ \A y \in 0..args.years :
              Cardinality({i \in DOMAIN proj : proj[i].Annee = y}) = 1
        /\ \A i \in DOMAIN proj : proj[i].Metric = ClaimMetric(args, proj[i].Annee)
        /\ \A i \in DOMAIN proj : proj[i].Annee = 0 => proj[i].Metric = args.start_value
        /\ \A i, j \in DOMAIN rows : i < j => rows[i].Annee <= rows[j].Annee

C10_Pair ==
    /\ prev.called
    /\ prev.args = [args EXCEPT !.growth_rate = prev.args.growth_rate]
    /\ prev.args.growth_rate # args.growth_rate
    /\ RGt(prev.args.growth_rate, MinusOne)
    /\ C1_Domain

\* C10: of two calls that differ only in growth_rate (both > -1; base_metric > 0,
\* exit_multiple > 0, desired_return > -1, years >= 1), the one with the
\* greater growth_rate returns the strictly greater fair_value.
C10_Monotone ==
    C10_Pair =>
        (RLt(prev.args.growth_rate, args.growth_rate)
            <=> RLt(prev.just_value, result.just_value))

\* C10 witness: growth_rate raised from -1/2 to 0 over two years
C10_Witness ==
    /\ C10_Pair
    /\ prev.args.growth_rate = Rat(-1, 2) /\ args.growth_rate = Zero
    /\ args.years = 2
    /\ RLt(prev.just_value, result.just_value)

(***************************************************************************)
(* The claims about the app, checked under AppSpec.                        *)
(***************************************************************************)
\* the provider did not answer with a quote whose price is a number
ProviderFailed(resp) ==
    /\ resp.kind # "none"
    /\ \/ resp.kind # "JSON"
       \/ resp.data.type # "dict"
       \/ ~resp.data.global_quote.has_price
       \/ Raised(ParseFloat(resp.data.global_quote.price))

\* C6: whatever the provider answers (network failure, timeout, HTTP error,
\* malformed response, unknown ticker, rate limiting), no exception leaves
\* fetch_stock_price, and on a failure the price it returns is 0.0.
C6_FetchNonFatal ==
    fetched.searched =>
        /\ fetched.exc = ""
        /\ ProviderFailed(response) => fetched.price = Zero

RECURSIVE ClaimPresentValues(_, _, _, _)
\* sum over year = 1..years of base * (1 + g)^year / (1 + d)^year
ClaimPresentValues(base, g, d, years) ==
    IF years = 0 THEN Zero
    ELSE RAdd(ClaimPresentValues(base, g, d, years - 1),
              RMul(RMul(base, RPowNat(RAdd(One, g), years)),
                   RInv(RPowNat(RAdd(One, d), years))))

\* the discounted terminal value base * (1 + g)^years * multiple / (1 + d)^years
ClaimTerminalValue(base, g, d, multiple, years) ==
    RMul(RMul(RMul(base, RPowNat(RAdd(One, g), years)), multiple),
         RInv(RPowNat(RAdd(One, d), years)))

\* C7: the value the FCF tab reports is the sum of the present values of the
\* cash flows of years 1..years plus the discounted terminal value.
C7_FcfIsDcf ==
    fcf_view.rendered =>
        fcf_view.just_value =
            RAdd(ClaimPresentValues(widgets.fcfps, Percent(widgets.fcf_growth),
                                    Percent(widgets.desired_return_fcf), AppYears),
                 ClaimTerminalValue(widgets.fcfps, Percent(widgets.fcf_growth),
                                    Percent(widgets.desired_return_fcf),
                                    widgets.pfcf_multiple, AppYears))

====
